---- MODULE Spec2Model ----
(***************************************************************************)
(* Model of the transactional-failure observability pipeline of            *)
(* common_for_services:                                                    *)
(*   - DBTransactionMiddleware.dispatch (middleware/db_transaction.py),    *)
(*     a coroutine whose steps interleave with the Celery worker that      *)
(*     consumes the tasks it submits;                                      *)
(*   - send_alert and its four channels (utils/alerts.py and               *)
(*     notification/*.py).                                                 *)
(* Wall-clock values (response_time, timestamp) are not modelled: no       *)
(* branch of the code depends on them.  logging.Logger calls do not raise: *)
(* the standard handlers swallow emit errors (Handler.handleError).        *)
(***************************************************************************)
EXTENDS Integers, Sequences, FiniteSets, TLC

VARIABLES
    celery_app,   \* self.celery_app is truthy (a client was injected)
    pc,           \* position of each request's dispatch coroutine
    request,      \* request.method, request.url.path
    handler,      \* what `await call_next(request)` did
    pending,      \* the value the try statement is about to return / raise
    result,       \* what dispatch returned or raised to its caller
    logs,         \* records emitted on logger "db_transaction_monitoring"
    tasks,        \* messages published with celery_app.send_task
    cancelled,    \* the request's asyncio task was cancelled after dispatch
    config,       \* module-level channel configuration (read at import)
    call,         \* the arguments of the send_alert call under study
    alert,        \* the channel calls send_alert made, and how it ended
    authorization,   \* the Authorization header of the request under study
    fastapi_release, \* which behaviour of fastapi.security the build has
    downstream,      \* what the handler behind the middleware does if called
    auth_pc,         \* position of AuthenticationMiddleware.dispatch
    state_user,      \* request.state.user
    invoked,         \* call_next(request) has been called
    auth_result,     \* what AuthenticationMiddleware.dispatch returned/raised
    log_request,     \* method, path and client of the request being logged
    log_downstream,  \* what the handler behind LoggingMiddleware does
    log_pc,          \* position of LoggingMiddleware.dispatch
    request_log,     \* records emitted on logger "request_logger"
    log_result       \* what LoggingMiddleware.dispatch returned or raised

vars == <<celery_app, pc, request, handler, pending, result, logs, tasks,
          cancelled, config, call, alert, authorization, fastapi_release,
          downstream, auth_pc, state_user, invoked, auth_result,
          log_request, log_downstream, log_pc, request_log, log_result>>

mwVars == <<celery_app, pc, request, handler, pending, result, logs, tasks,
            cancelled>>
alertVars == <<config, call, alert>>
logVars == <<log_request, log_downstream, log_pc, request_log, log_result>>
authVars == <<authorization, fastapi_release, downstream, auth_pc, state_user,
              invoked, auth_result>>

-----------------------------------------------------------------------------
(* Bounds and input domains *)

NumRequests == 1

Requests == 1..NumRequests

Methods == {"GET", "POST"}
Paths == {"/orders", "/health"}
ErrorTexts == {"connection lost", "deadlock detected"}

\* exception classes the wrapped handler may raise
ExcKinds == {"SQLAlchemyError", "IntegrityError", "ValueError"}

-----------------------------------------------------------------------------
(* Values *)

NoneValue == "<None>"

Resp(s, b) == [kind |-> "response", status |-> s, body |-> b,
               exc |-> NoneValue, text |-> NoneValue]
Raised(e, t) == [kind |-> "raised", status |-> 0, body |-> NoneValue,
                 exc |-> e, text |-> t]
Nothing == [kind |-> "none", status |-> 0, body |-> NoneValue,
            exc |-> NoneValue, text |-> NoneValue]

NoRequest == [method |-> NoneValue, path |-> NoneValue]

\* responses the downstream handler may return
HandlerResponses == {Resp(200, "ok"), Resp(404, "not found")}

HandlerOutcomes ==
    HandlerResponses \cup {Raised(e, t) : e \in ExcKinds, t \in ErrorTexts}

\* json.dumps: the JSON text of a value (injective on the values used here)
JsonDumps(d) == [fmt |-> "json", data |-> d]
\* json.dumps(d, indent=n): the same JSON value, pretty-printed
JsonDumpsIndent(d, n) == [fmt |-> "json", indent |-> n, data |-> d]
\* a dict handed to the logger as is
AsDict(d) == [fmt |-> "dict", data |-> d]

\* mutant: `except Exception` in place of `except SQLAlchemyError`
IsSQLAlchemyError_CatchAll(e) == TRUE

\* isinstance(e, SQLAlchemyError): the class and its subclasses
IsSQLAlchemyError(e) == e \in {"SQLAlchemyError", "IntegrityError"}

GenericErrorBody ==
    JsonDumps([status |-> "error", message |-> "Error interno en el sistema"])

GenericErrorResponse == Resp(500, GenericErrorBody)

\* log_data of the except branch
ErrorLogData(r) ==
    [package |-> "middleware",
     module  |-> "db_transaction.DBTransactionMiddleware",
     log     |-> "CRITICAL",
     event   |-> "db_transaction_error",
     error   |-> handler[r].text,
     method  |-> request[r].method,
     path    |-> request[r].path]

\* the dict logged by the finally branch
CompleteLogData(r) ==
    [package |-> "middleware",
     module  |-> "db_transaction.DBTransactionMiddleware",
     log     |-> "CRITICAL",
     event   |-> "db_transaction_complete",
     error   |-> NoneValue,
     method  |-> request[r].method,
     path    |-> request[r].path]

LogTaskName == "celery_worker.tasks.log_to_logging_service_task"
EmailTaskName == "celery_worker.tasks.send_email_task"

LogTask(r) ==
    [name |-> LogTaskName, to |-> NoneValue, subject |-> NoneValue,
     payload |-> AsDict(ErrorLogData(r)), state |-> "queued"]

\* mutant: the e-mail carries the completion record, without the error text
EmailTask_CarriesCompletion(r) ==
    [name |-> EmailTaskName, to |-> "admin@example.com",
     subject |-> "Database Error Alert",
     payload |-> JsonDumpsIndent(CompleteLogData(r), 2), state |-> "queued"]

EmailTask(r) ==
    [name |-> EmailTaskName, to |-> "admin@example.com",
     subject |-> "Database Error Alert",
     payload |-> JsonDumpsIndent(ErrorLogData(r), 2), state |-> "queued"]

\* kombu's error when the broker cannot be reached
BrokerError == Raised("OperationalError", "broker unreachable")

-----------------------------------------------------------------------------
(* DBTransactionMiddleware.dispatch *)

\* start_time = time.time(); try: response = await call_next(request)
CallNext(r, m, p, h) ==
    /\ pc[r] = "idle"
    /\ request' = [request EXCEPT ![r] = [method |-> m, path |-> p]]
    /\ handler' = [handler EXCEPT ![r] = h]
    /\ IF h.kind = "response"
         THEN /\ pending' = [pending EXCEPT ![r] = h]
              /\ pc' = [pc EXCEPT ![r] = "finally"]
         ELSE IF IsSQLAlchemyError(h.exc)
           THEN /\ pc' = [pc EXCEPT ![r] = "except"]
                /\ UNCHANGED pending
           ELSE /\ pending' = [pending EXCEPT ![r] = h]
                /\ pc' = [pc EXCEPT ![r] = "finally"]
    /\ UNCHANGED <<celery_app, result, logs, tasks, cancelled, alertVars,
                   authVars, logVars>>

\* mutant: the persistence task is skipped, the e-mail task goes out first
LogError_SkipsPersistence(r) ==
    /\ pc[r] = "except"
    /\ logs' = [logs EXCEPT ![r] =
                  Append(@, [level |-> "ERROR",
                             msg |-> JsonDumps(ErrorLogData(r))])]
    /\ pc' = [pc EXCEPT ![r] = IF celery_app THEN "send_email" ELSE "respond"]
    /\ UNCHANGED <<celery_app, request, handler, pending, result, tasks,
                   cancelled, alertVars, authVars, logVars>>

\* except SQLAlchemyError as e: ... logger.error(json.dumps(log_data))
LogError(r) ==
    /\ pc[r] = "except"
    /\ logs' = [logs EXCEPT ![r] =
                  Append(@, [level |-> "ERROR",
                             msg |-> JsonDumps(ErrorLogData(r))])]
    /\ pc' = [pc EXCEPT ![r] = IF celery_app THEN "send_log" ELSE "respond"]
    /\ UNCHANGED <<celery_app, request, handler, pending, result, tasks,
                   cancelled, alertVars,
                   authVars, logVars>>

\* self.celery_app.send_task("...log_to_logging_service_task", args=[log_data])
SendLogTask(r, ok) ==
    /\ pc[r] = "send_log"
    /\ IF ok
         THEN /\ tasks' = [tasks EXCEPT ![r] = Append(@, LogTask(r))]
              /\ pc' = [pc EXCEPT ![r] = "send_email"]
              /\ UNCHANGED pending
         ELSE /\ pending' = [pending EXCEPT ![r] = BrokerError]
              /\ pc' = [pc EXCEPT ![r] = "finally"]
              /\ UNCHANGED tasks
    /\ UNCHANGED <<celery_app, request, handler, result, logs, cancelled, alertVars,
                   authVars, logVars>>

\* self.celery_app.send_task("...send_email_task", args=[...])
SendEmailTask(r, ok) ==
    /\ pc[r] = "send_email"
    /\ IF ok
         THEN /\ tasks' = [tasks EXCEPT ![r] = Append(@, EmailTask(r))]
              /\ pc' = [pc EXCEPT ![r] = "respond"]
              /\ UNCHANGED pending
         ELSE /\ pending' = [pending EXCEPT ![r] = BrokerError]
              /\ pc' = [pc EXCEPT ![r] = "finally"]
              /\ UNCHANGED tasks
    /\ UNCHANGED <<celery_app, request, handler, result, logs, cancelled, alertVars,
                   authVars, logVars>>

\* mutant: the response is built only once the submitted work has finished
Respond_WaitsForDelivery(r) ==
    /\ pc[r] = "respond"
    /\ \A i \in DOMAIN tasks[r] : tasks[r][i].state \in {"succeeded", "failed"}
    /\ pending' = [pending EXCEPT ![r] = GenericErrorResponse]
    /\ pc' = [pc EXCEPT ![r] = "finally"]
    /\ UNCHANGED <<celery_app, request, handler, result, logs, tasks,
                   cancelled, alertVars,
                   authVars, logVars>>

\* return Response(content=json.dumps({...}), status_code=500)
Respond(r) ==
    /\ pc[r] = "respond"
    /\ pending' = [pending EXCEPT ![r] = GenericErrorResponse]
    /\ pc' = [pc EXCEPT ![r] = "finally"]
    /\ UNCHANGED <<celery_app, request, handler, result, logs, tasks,
                   cancelled, alertVars,
                   authVars, logVars>>

\* mutant: a handler response is replaced by an empty 200 response
Finally_DropsResponse(r) ==
    /\ pc[r] = "finally"
    /\ logs' = [logs EXCEPT ![r] =
                  Append(@, [level |-> "INFO",
                             msg |-> AsDict(CompleteLogData(r))])]
    /\ result' = [result EXCEPT ![r] =
                    IF pending[r].kind = "response" /\ pending[r].status # 500
                      THEN Resp(200, NoneValue) ELSE pending[r]]
    /\ pc' = [pc EXCEPT ![r] = "done"]
    /\ UNCHANGED <<celery_app, request, handler, pending, tasks, cancelled, alertVars,
                   authVars, logVars>>

\* mutant: the completion entry is written only when a response is returned
Finally_LogsResponsesOnly(r) ==
    /\ pc[r] = "finally"
    /\ logs' = [logs EXCEPT ![r] =
                  IF pending[r].kind = "response"
                    THEN Append(@, [level |-> "INFO",
                                    msg |-> AsDict(CompleteLogData(r))])
                    ELSE @]
    /\ result' = [result EXCEPT ![r] = pending[r]]
    /\ pc' = [pc EXCEPT ![r] = "done"]
    /\ UNCHANGED <<celery_app, request, handler, pending, tasks, cancelled,
                   alertVars, authVars, logVars>>

\* finally: logger.info({... "event": "db_transaction_complete" ...});
\* then the pending return value or exception leaves dispatch
Finally(r) ==
    /\ pc[r] = "finally"
    /\ logs' = [logs EXCEPT ![r] =
                  Append(@, [level |-> "INFO",
                             msg |-> AsDict(CompleteLogData(r))])]
    /\ result' = [result EXCEPT ![r] = pending[r]]
    /\ pc' = [pc EXCEPT ![r] = "done"]
    /\ UNCHANGED <<celery_app, request, handler, pending, tasks, cancelled, alertVars,
                   authVars, logVars>>

-----------------------------------------------------------------------------
(* The Celery worker that consumes the published messages *)

WorkerStart(r, i) ==
    /\ i \in DOMAIN tasks[r]
    /\ tasks[r][i].state = "queued"
    /\ tasks' = [tasks EXCEPT ![r][i].state = "started"]
    /\ UNCHANGED <<celery_app, pc, request, handler, pending, result, logs,
                   cancelled, alertVars,
                   authVars, logVars>>

WorkerFinish(r, i, ok) ==
    /\ i \in DOMAIN tasks[r]
    /\ tasks[r][i].state = "started"
    /\ tasks' = [tasks EXCEPT ![r][i].state =
                    IF ok THEN "succeeded" ELSE "failed"]
    /\ UNCHANGED <<celery_app, pc, request, handler, pending, result, logs,
                   cancelled, alertVars,
                   authVars, logVars>>

\* celery.conf.update(task_routes=...): the queue each task name is sent to
TaskQueue(name) ==
    CASE name = EmailTaskName -> "email_queue"
      [] name = LogTaskName   -> "logging_queue"

-----------------------------------------------------------------------------
(* Cancellation of the request's task (client disconnect).  dispatch has    *)
(* one suspension point, `await call_next(request)`, which precedes every   *)
(* send_task call; a CancelledError thrown there is one more handler        *)
(* exception that is not an SQLAlchemyError.  Once a message is published   *)
(* the rest of dispatch runs without suspending, so a later cancellation    *)
(* reaches the task only after dispatch has returned.  dispatch keeps no    *)
(* AsyncResult and calls neither revoke nor purge.                          *)

\* mutant: the cancellation revokes the work the request submitted
Cancel_RevokesSubmittedWork(r) ==
    /\ pc[r] = "done"
    /\ ~cancelled[r]
    /\ cancelled' = [cancelled EXCEPT ![r] = TRUE]
    /\ tasks' = [tasks EXCEPT ![r] =
                    [i \in DOMAIN @ |->
                       IF @[i].state \in {"queued", "started"}
                         THEN [@[i] EXCEPT !.state = "revoked"] ELSE @[i]]]
    /\ UNCHANGED <<celery_app, pc, request, handler, pending, result, logs,
                   alertVars,
                   authVars, logVars>>

Cancel(r) ==
    /\ pc[r] = "done"
    /\ ~cancelled[r]
    /\ cancelled' = [cancelled EXCEPT ![r] = TRUE]
    /\ UNCHANGED <<celery_app, pc, request, handler, pending, result, logs,
                   tasks, alertVars,
                   authVars, logVars>>

-----------------------------------------------------------------------------
(* Alert severities.  utils/alerts.py compares against AlertSeverity        *)
(* members, notification/alerts.py against plain strings; a member of a     *)
(* plain Enum never equals a string.                                        *)

EnumSev(v) == [type |-> "AlertSeverity", value |-> v]
StrSev(v) == [type |-> "str", value |-> v]

SeverityNames == {"INFO", "WARNING", "CRITICAL"}

\* every value a caller may pass as `severity`
SeverityInputs ==
    {EnumSev(v) : v \in SeverityNames} \cup {StrSev(v) : v \in SeverityNames}
    \cup {StrSev("DEBUG")}

Subjects == {"Database Error Alert"}
Messages == {"connection lost", "disk almost full"}

\* what the remote end does when a channel makes its call
SmtpOutcomes == {"ok", "exception"}
HttpOutcomes == {"2xx", "non2xx", "exception"}
TwilioOutcomes == {"ok", "exception"}

Transports ==
    [email : SmtpOutcomes, slack : HttpOutcomes,
     sms : TwilioOutcomes, webhook : HttpOutcomes]

\* The environment the module-level settings are read from: TRUE when the
\* variable is set.  A Slack, Twilio or webhook setting that is not set is
\* the empty string; an SMTP setting that is not set takes the placeholder
\* default of its os.getenv call ("smtp.gmail.com", 587,
\* "monitoring@example.com", "your_password", "alerts@example.com"), so its
\* value is never empty.
Configs ==
    [SLACK_WEBHOOK_URL : BOOLEAN, TWILIO_ACCOUNT_SID : BOOLEAN,
     TWILIO_AUTH_TOKEN : BOOLEAN, TWILIO_PHONE_NUMBER : BOOLEAN,
     ALERT_PHONE_NUMBER : BOOLEAN, WEBHOOK_URL : BOOLEAN,
     SMTP_SERVER : BOOLEAN, SMTP_PORT : BOOLEAN, SMTP_USER : BOOLEAN,
     SMTP_PASSWORD : BOOLEAN, SMTP_RECEIVER : BOOLEAN]

\* nothing set in the environment
DefaultConfig ==
    [SLACK_WEBHOOK_URL |-> FALSE, TWILIO_ACCOUNT_SID |-> FALSE,
     TWILIO_AUTH_TOKEN |-> FALSE, TWILIO_PHONE_NUMBER |-> FALSE,
     ALERT_PHONE_NUMBER |-> FALSE, WEBHOOK_URL |-> FALSE,
     SMTP_SERVER |-> FALSE, SMTP_PORT |-> FALSE, SMTP_USER |-> FALSE,
     SMTP_PASSWORD |-> FALSE, SMTP_RECEIVER |-> FALSE]

\* One call of a channel function:
\*   network  a connection / provider call was made
\*   logged   what the function logged: "sent", "error" or "unconfigured"
\*   raised   an exception left the function
Call(ch, content, network, logged, raised) ==
    [channel |-> ch, content |-> content, network |-> network,
     logged |-> logged, raised |-> raised]

\* json.dumps inside requests.post(json=payload): an Enum member is not
\* JSON serializable (TypeError), a string is
JsonSerializable(payload) == payload.severity.type = "str"

-----------------------------------------------------------------------------
(* The channels *)

\* The EmailMessage is built before the try block; subject and body are
\* single-line strings, for which building it cannot fail.  Everything that
\* touches the SMTP server is inside the try block.  No setting is tested
\* before the connection is opened.
send_alert_email(subject, body, net) ==
    LET content == [subject |-> subject, message |-> body,
                    severity |-> NoneValue]
    IN  IF net = "exception"
          THEN Call("email", content, TRUE, "error", FALSE)
          ELSE Call("email", content, TRUE, "sent", FALSE)

\* mutant: requests.post outside any try block
send_slack_alert_NoCatch(cfg, message, net) ==
    LET content == [subject |-> NoneValue, message |-> message,
                    severity |-> NoneValue]
    IN  IF ~cfg.SLACK_WEBHOOK_URL
          THEN Call("slack", content, FALSE, "unconfigured", FALSE)
          ELSE IF net = "exception"
            THEN Call("slack", content, TRUE, "error", TRUE)
            ELSE Call("slack", content, TRUE, "sent", FALSE)

send_slack_alert(cfg, message, net) ==
    LET content == [subject |-> NoneValue, message |-> message,
                    severity |-> NoneValue]
    IN  IF ~cfg.SLACK_WEBHOOK_URL
          THEN Call("slack", content, FALSE, "unconfigured", FALSE)
          ELSE IF net = "exception"
            THEN Call("slack", content, TRUE, "error", FALSE)
            ELSE Call("slack", content, TRUE, "sent", FALSE)

send_sms_alert(cfg, message, net) ==
    LET content == [subject |-> NoneValue, message |-> message,
                    severity |-> NoneValue]
    IN  IF ~cfg.TWILIO_ACCOUNT_SID \/ ~cfg.TWILIO_AUTH_TOKEN
          THEN Call("sms", content, FALSE, "unconfigured", FALSE)
          ELSE IF net = "exception"
            THEN Call("sms", content, TRUE, "error", FALSE)
            ELSE Call("sms", content, TRUE, "sent", FALSE)

send_webhook_alert(cfg, payload, net) ==
    IF ~cfg.WEBHOOK_URL
      THEN Call("webhook", payload, FALSE, "unconfigured", FALSE)
      ELSE IF ~JsonSerializable(payload)
        THEN Call("webhook", payload, FALSE, "error", FALSE)
        ELSE IF net = "exception"
          THEN Call("webhook", payload, TRUE, "error", FALSE)
          ELSE Call("webhook", payload, TRUE, "sent", FALSE)

\* notification/slack.py, sms_twilio.py, web_hook.py: the same functions,
\* one per module
notification_send_slack_alert(cfg, message, net) ==
    send_slack_alert(cfg, message, net)

notification_send_sms_alert(cfg, message, net) ==
    send_sms_alert(cfg, message, net)

notification_send_webhook_alert(cfg, payload, net) ==
    send_webhook_alert(cfg, payload, net)

\* notification/alerts.py imports send_alert_email from notification/smtp.py,
\* which defines only EmailService; the function is taken to be the one of
\* utils/alerts.py
notification_send_alert_email(subject, body, net) ==
    send_alert_email(subject, body, net)

-----------------------------------------------------------------------------
(* send_alert *)

\* statements run in order; an exception leaving one ends the function
RECURSIVE RunInOrder(_)
RunInOrder(calls) ==
    IF calls = <<>> THEN <<>>
    ELSE IF Head(calls).raised THEN <<Head(calls)>>
    ELSE <<Head(calls)>> \o RunInOrder(Tail(calls))

SlackText(prefix, message) == <<prefix, message>>

\* mutant: the CRITICAL branch sends the SMS before the chat message
send_alert_SmsFirst(cfg, subject, message, severity, net) ==
    LET email == send_alert_email(subject, message, net.email)
        sms == send_sms_alert(cfg, message, net.sms)
        webhook == send_webhook_alert(cfg,
                       [subject |-> subject, message |-> message,
                        severity |-> severity], net.webhook)
        bySeverity ==
          IF severity = EnumSev("CRITICAL")
            THEN <<email, sms,
                   send_slack_alert(cfg,
                       SlackText("*CRITICAL ALERT*: ", message), net.slack)>>
          ELSE IF severity = EnumSev("WARNING")
            THEN <<email,
                   send_slack_alert(cfg,
                       SlackText("*WARNING ALERT*: ", message), net.slack)>>
          ELSE IF severity = EnumSev("INFO")
            THEN <<send_slack_alert(cfg,
                       SlackText("*INFO ALERT*: ", message), net.slack)>>
          ELSE <<>>
    IN  RunInOrder(bySeverity \o <<webhook>>)

\* mutant: the webhook call is also made inside the WARNING branch
send_alert_WebhookTwice(cfg, subject, message, severity, net) ==
    LET email == send_alert_email(subject, message, net.email)
        sms == send_sms_alert(cfg, message, net.sms)
        webhook == send_webhook_alert(cfg,
                       [subject |-> subject, message |-> message,
                        severity |-> severity], net.webhook)
        bySeverity ==
          IF severity = EnumSev("CRITICAL")
            THEN <<email,
                   send_slack_alert(cfg,
                       SlackText("*CRITICAL ALERT*: ", message), net.slack),
                   sms>>
          ELSE IF severity = EnumSev("WARNING")
            THEN <<email,
                   send_slack_alert(cfg,
                       SlackText("*WARNING ALERT*: ", message), net.slack),
                   webhook>>
          ELSE IF severity = EnumSev("INFO")
            THEN <<send_slack_alert(cfg,
                       SlackText("*INFO ALERT*: ", message), net.slack)>>
          ELSE <<>>
    IN  RunInOrder(bySeverity \o <<webhook>>)

\* mutant: the INFO branch also sends the e-mail
send_alert_InfoEmails(cfg, subject, message, severity, net) ==
    LET email == send_alert_email(subject, message, net.email)
        sms == send_sms_alert(cfg, message, net.sms)
        webhook == send_webhook_alert(cfg,
                       [subject |-> subject, message |-> message,
                        severity |-> severity], net.webhook)
        bySeverity ==
          IF severity = EnumSev("CRITICAL")
            THEN <<email,
                   send_slack_alert(cfg,
                       SlackText("*CRITICAL ALERT*: ", message), net.slack),
                   sms>>
          ELSE IF severity = EnumSev("WARNING")
            THEN <<email,
                   send_slack_alert(cfg,
                       SlackText("*WARNING ALERT*: ", message), net.slack)>>
          ELSE IF severity = EnumSev("INFO")
            THEN <<email,
                   send_slack_alert(cfg,
                       SlackText("*INFO ALERT*: ", message), net.slack)>>
          ELSE <<>>
    IN  RunInOrder(bySeverity \o <<webhook>>)

\* mutant: the WARNING branch also sends the SMS, as the CRITICAL one does
send_alert_WarningSms(cfg, subject, message, severity, net) ==
    LET email == send_alert_email(subject, message, net.email)
        sms == send_sms_alert(cfg, message, net.sms)
        webhook == send_webhook_alert(cfg,
                       [subject |-> subject, message |-> message,
                        severity |-> severity], net.webhook)
        bySeverity ==
          IF severity = EnumSev("CRITICAL")
            THEN <<email,
                   send_slack_alert(cfg,
                       SlackText("*CRITICAL ALERT*: ", message), net.slack),
                   sms>>
          ELSE IF severity = EnumSev("WARNING")
            THEN <<email,
                   send_slack_alert(cfg,
                       SlackText("*WARNING ALERT*: ", message), net.slack),
                   sms>>
          ELSE IF severity = EnumSev("INFO")
            THEN <<send_slack_alert(cfg,
                       SlackText("*INFO ALERT*: ", message), net.slack)>>
          ELSE <<>>
    IN  RunInOrder(bySeverity \o <<webhook>>)

\* mutant: the branches compare the severity by its value, so that the plain
\* string "CRITICAL" is routed like AlertSeverity.CRITICAL
send_alert_MatchesByValue(cfg, subject, message, severity, net) ==
    LET email == send_alert_email(subject, message, net.email)
        sms == send_sms_alert(cfg, message, net.sms)
        webhook == send_webhook_alert(cfg,
                       [subject |-> subject, message |-> message,
                        severity |-> severity], net.webhook)
        bySeverity ==
          IF severity.value = "CRITICAL"
            THEN <<email,
                   send_slack_alert(cfg,
                       SlackText("*CRITICAL ALERT*: ", message), net.slack),
                   sms>>
          ELSE IF severity.value = "WARNING"
            THEN <<email,
                   send_slack_alert(cfg,
                       SlackText("*WARNING ALERT*: ", message), net.slack)>>
          ELSE IF severity.value = "INFO"
            THEN <<send_slack_alert(cfg,
                       SlackText("*INFO ALERT*: ", message), net.slack)>>
          ELSE <<>>
    IN  RunInOrder(bySeverity \o <<webhook>>)

\* utils/alerts.py
send_alert(cfg, subject, message, severity, net) ==
    LET email == send_alert_email(subject, message, net.email)
        sms == send_sms_alert(cfg, message, net.sms)
        webhook == send_webhook_alert(cfg,
                       [subject |-> subject, message |-> message,
                        severity |-> severity], net.webhook)
        bySeverity ==
          IF severity = EnumSev("CRITICAL")
            THEN <<email,
                   send_slack_alert(cfg,
                       SlackText("*CRITICAL ALERT*: ", message), net.slack),
                   sms>>
          ELSE IF severity = EnumSev("WARNING")
            THEN <<email,
                   send_slack_alert(cfg,
                       SlackText("*WARNING ALERT*: ", message), net.slack)>>
          ELSE IF severity = EnumSev("INFO")
            THEN <<send_slack_alert(cfg,
                       SlackText("*INFO ALERT*: ", message), net.slack)>>
          ELSE <<>>
    IN  RunInOrder(bySeverity \o <<webhook>>)

\* notification/alerts.py
notification_send_alert(cfg, subject, message, severity, net) ==
    LET email == notification_send_alert_email(subject, message, net.email)
        sms == notification_send_sms_alert(cfg, message, net.sms)
        webhook == notification_send_webhook_alert(cfg,
                       [subject |-> subject, message |-> message,
                        severity |-> severity], net.webhook)
        bySeverity ==
          IF severity = StrSev("CRITICAL")
            THEN <<email,
                   notification_send_slack_alert(cfg,
                       SlackText("*CRITICAL ALERT*: ", message), net.slack),
                   sms>>
          ELSE IF severity = StrSev("WARNING")
            THEN <<email,
                   notification_send_slack_alert(cfg,
                       SlackText("*WARNING ALERT*: ", message), net.slack)>>
          ELSE IF severity = StrSev("INFO")
            THEN <<notification_send_slack_alert(cfg,
                       SlackText("*INFO ALERT*: ", message), net.slack)>>
          ELSE <<>>
    IN  RunInOrder(bySeverity \o <<webhook>>)

\* the arguments of one send_alert call, and the transport behaviour it meets
AlertCalls ==
    [module : {"utils.alerts", "notification.alerts"}, subject : Subjects,
     message : Messages, severity : SeverityInputs, net : Transports]

NoCall ==
    [module |-> NoneValue, subject |-> NoneValue, message |-> NoneValue,
     severity |-> StrSev(NoneValue),
     net |-> [email |-> "ok", slack |-> "2xx", sms |-> "ok",
              webhook |-> "2xx"]]

\* send_alert has no return statement: its value is None
ReturnsNone == [isNone |-> TRUE, outcomes |-> <<>>]

NoAlert == [returned |-> FALSE, calls |-> <<>>, raised |-> FALSE,
            value |-> ReturnsNone]

\* mutant: send_alert returns what each channel logged
AlertResult_ReturnsOutcomes(calls) ==
    LET raised == calls # <<>> /\ calls[Len(calls)].raised
    IN  [returned |-> ~raised, calls |-> calls, raised |-> raised,
         value |-> [isNone |-> FALSE,
                    outcomes |-> [i \in DOMAIN calls |-> calls[i].logged]]]

\* the channel calls made, whether send_alert returned or raised, and the
\* value it returned
AlertResult(calls) ==
    LET raised == calls # <<>> /\ calls[Len(calls)].raised
    IN  [returned |-> ~raised, calls |-> calls, raised |-> raised,
         value |-> ReturnsNone]

AlertDone == alert.returned \/ alert.raised

\* utils.alerts.send_alert(subject, message, severity)
UtilsSendAlert ==
    /\ call.module = "utils.alerts"
    /\ ~AlertDone
    /\ alert' = AlertResult(send_alert(config, call.subject, call.message,
                                       call.severity, call.net))
    /\ UNCHANGED <<config, call, mwVars, authVars, logVars>>

\* common_for_services.notification.alerts.send_alert(subject, message,
\* severity)
NotificationSendAlert ==
    /\ call.module = "notification.alerts"
    /\ ~AlertDone
    /\ alert' = AlertResult(notification_send_alert(config, call.subject,
                                call.message, call.severity, call.net))
    /\ UNCHANGED <<config, call, mwVars, authVars, logVars>>

-----------------------------------------------------------------------------
(* Specifications *)

(* AuthenticationMiddleware.dispatch (middleware/authentication.py) *)

Users == {"alice", "bob"}

\* a compact JWS: whether it parses, whether its HS256 signature verifies
\* under SECRET_KEY, whether its exp claim is in the past, and its claims
WellFormedJwts ==
    [wellformed : {TRUE}, signed_with_secret : BOOLEAN, expired : BOOLEAN,
     claims : {[sub |-> u] : u \in Users}]
MalformedJwt ==
    [wellformed |-> FALSE, signed_with_secret |-> FALSE, expired |-> FALSE,
     claims |-> [sub |-> NoneValue]]
Jwts == WellFormedJwts \cup {MalformedJwt}

NoAuthorization ==
    [present |-> FALSE, scheme |-> NoneValue, credentials |-> MalformedJwt]

\* the Authorization header of a request: absent, or "<scheme> <token>"
Authorizations ==
    {NoAuthorization}
    \cup [present : {TRUE}, scheme : {"Bearer", "Basic"}, credentials : Jwts]

\* fastapi is not pinned.  Up to 0.121 HTTPBearer answers missing or
\* non-bearer credentials with 403, later releases with 401.
FastapiReleases == {"status403", "status401"}

HTTPException(s, d) == [kind |-> "raised", status |-> s, body |-> NoneValue,
                        exc |-> "HTTPException", text |-> d]

\* HTTPBearer()(request), auto_error left at True: the credentials, or the
\* HTTPException it raises
HTTPBearer(a, release) ==
    IF ~a.present
      THEN HTTPException(IF release = "status403" THEN 403 ELSE 401,
                         "Not authenticated")
      ELSE IF a.scheme # "Bearer"
        THEN IF release = "status403"
               THEN HTTPException(403, "Invalid authentication credentials")
               ELSE HTTPException(401, "Not authenticated")
        ELSE [kind |-> "credentials", credentials |-> a.credentials]

\* jwt.decode(token, SECRET_KEY, algorithms=["HS256"]): the structure is
\* parsed, then the signature verified, then the exp claim validated
jwt_decode(t) ==
    IF ~t.wellformed THEN [ok |-> FALSE, exc |-> "DecodeError"]
    ELSE IF ~t.signed_with_secret
      THEN [ok |-> FALSE, exc |-> "InvalidSignatureError"]
    ELSE IF t.expired THEN [ok |-> FALSE, exc |-> "ExpiredSignatureError"]
    ELSE [ok |-> TRUE, payload |-> t.claims]

\* the three modules this model covers run apart: outside AuthSpec the
\* authentication middleware is not installed
AuthOff ==
    /\ authorization = NoAuthorization
    /\ fastapi_release = "status403"
    /\ downstream = Nothing
    /\ auth_pc = "off"
    /\ state_user = NoneValue
    /\ invoked = FALSE
    /\ auth_result = Nothing

\* auth = HTTPBearer(); credentials = await auth(request)
AuthBearer ==
    /\ auth_pc = "bearer"
    /\ LET c == HTTPBearer(authorization, fastapi_release) IN
         IF c.kind = "raised"
           THEN /\ auth_result' = c
                /\ auth_pc' = "done"
           ELSE /\ auth_pc' = "decode"
                /\ UNCHANGED auth_result
    /\ UNCHANGED <<authorization, fastapi_release, downstream, state_user,
                   invoked, mwVars, alertVars,
                   logVars>>

\* mutant: a token that does not decode lets the request through
AuthDecode_IgnoresFailure ==
    /\ auth_pc = "decode"
    /\ LET d == jwt_decode(authorization.credentials) IN
         /\ state_user' = IF d.ok THEN d.payload ELSE state_user
         /\ auth_pc' = "call_next"
         /\ UNCHANGED auth_result
    /\ UNCHANGED <<authorization, fastapi_release, downstream, invoked,
                   mwVars, alertVars,
                   logVars>>

\* try: payload = jwt.decode(...); request.state.user = payload
\* except jwt.ExpiredSignatureError / except jwt.InvalidTokenError
AuthDecode ==
    /\ auth_pc = "decode"
    /\ LET d == jwt_decode(authorization.credentials) IN
         IF d.ok
           THEN /\ state_user' = d.payload
                /\ auth_pc' = "call_next"
                /\ UNCHANGED auth_result
           ELSE /\ auth_result' =
                     IF d.exc = "ExpiredSignatureError"
                       THEN HTTPException(401, "Token expired")
                       ELSE HTTPException(401, "Invalid token")
                /\ auth_pc' = "done"
                /\ UNCHANGED state_user
    /\ UNCHANGED <<authorization, fastapi_release, downstream, invoked,
                   mwVars, alertVars,
                   logVars>>

\* return await call_next(request)
AuthCallNext ==
    /\ auth_pc = "call_next"
    /\ invoked' = TRUE
    /\ auth_result' = downstream
    /\ auth_pc' = "done"
    /\ UNCHANGED <<authorization, fastapi_release, downstream, state_user,
                   mwVars, alertVars,
                   logVars>>

-----------------------------------------------------------------------------
(* LoggingMiddleware.dispatch (middleware/logging.py) *)

\* request.client: None when the server gives no client address, else the
\* (host, port) pair, of which the host is kept
Clients == {NoneValue, "192.168.1.1", "10.0.0.7"}

\* reading a local name that no executed statement has bound
UnboundLocalError(name) == Raised("UnboundLocalError", name)

\* the dict handed to logger.info
RequestLogData(req, client_ip, response) ==
    [package |-> "middleware",
     modulo |-> "logging.LoggingMiddleware",
     event |-> "http/https_request",
     method |-> req.method,
     path |-> req.path,
     client_ip |-> client_ip,
     status_code |-> response.status]

\* outside LoggingSpec the logging middleware is not installed
LoggingOff ==
    /\ log_request = [method |-> NoneValue, path |-> NoneValue,
                      client |-> NoneValue]
    /\ log_downstream = Nothing
    /\ log_pc = "off"
    /\ request_log = <<>>
    /\ log_result = Nothing

\* start_time = time.time(); response = await call_next(request)
LoggingCallNext ==
    /\ log_pc = "call_next"
    /\ IF log_downstream.kind = "response"
         THEN /\ log_pc' = "log"
              /\ UNCHANGED log_result
         ELSE /\ log_result' = log_downstream
              /\ log_pc' = "done"
    /\ UNCHANGED <<log_request, log_downstream, request_log, mwVars,
                   alertVars, authVars>>

\* if request.client: client_ip = request.client.host
\* logger.info({... "client_ip": client_ip ...}); return response
LoggingLog ==
    /\ log_pc = "log"
    /\ IF log_request.client # NoneValue
         THEN /\ request_log' =
                   Append(request_log,
                          [level |-> "INFO",
                           msg |-> AsDict(RequestLogData(log_request,
                                              log_request.client,
                                              log_downstream))])
              /\ log_result' = log_downstream
         ELSE /\ log_result' = UnboundLocalError("client_ip")
              /\ UNCHANGED request_log
    /\ log_pc' = "done"
    /\ UNCHANGED <<log_request, log_downstream, mwVars, alertVars, authVars>>

-----------------------------------------------------------------------------
MiddlewareInit ==
    /\ pc = [r \in Requests |-> "idle"]
    /\ request = [r \in Requests |-> NoRequest]
    /\ handler = [r \in Requests |-> Nothing]
    /\ pending = [r \in Requests |-> Nothing]
    /\ result = [r \in Requests |-> Nothing]
    /\ logs = [r \in Requests |-> <<>>]
    /\ tasks = [r \in Requests |-> <<>>]
    /\ cancelled = [r \in Requests |-> FALSE]

\* the middleware pipeline: requests, and the worker draining the queues
Init ==
    /\ celery_app \in BOOLEAN
    /\ MiddlewareInit
    /\ config = DefaultConfig
    /\ call = NoCall
    /\ alert = NoAlert
    /\ AuthOff
    /\ LoggingOff

Next ==
    \/ \E r \in Requests, m \in Methods, p \in Paths, h \in HandlerOutcomes :
         CallNext(r, m, p, h)
    \/ \E r \in Requests : LogError(r)
    \/ \E r \in Requests, ok \in BOOLEAN : SendLogTask(r, ok)
    \/ \E r \in Requests, ok \in BOOLEAN : SendEmailTask(r, ok)
    \/ \E r \in Requests : Respond(r)
    \/ \E r \in Requests : Finally(r)
    \/ \E r \in Requests, i \in 1..2 : WorkerStart(r, i)
    \/ \E r \in Requests, i \in 1..2, ok \in BOOLEAN : WorkerFinish(r, i, ok)
    \/ \E r \in Requests : Cancel(r)

Spec == Init /\ [][Next]_vars

\* the alert module: send_alert applied to any arguments, under any
\* configuration and any behaviour of the four transports
AlertInit ==
    /\ celery_app = FALSE
    /\ MiddlewareInit
    /\ config \in Configs
    /\ call \in AlertCalls
    /\ alert = NoAlert
    /\ AuthOff
    /\ LoggingOff

AlertNext ==
    \/ UtilsSendAlert
    \/ NotificationSendAlert

AlertSpec == AlertInit /\ [][AlertNext]_vars

\* the authentication middleware: dispatch applied to any Authorization
\* header, in front of any handler, on either behaviour of fastapi.security
AuthInit ==
    /\ celery_app = FALSE
    /\ MiddlewareInit
    /\ config = DefaultConfig
    /\ call = NoCall
    /\ alert = NoAlert
    /\ authorization \in Authorizations
    /\ fastapi_release \in FastapiReleases
    /\ downstream \in HandlerOutcomes
    /\ auth_pc = "bearer"
    /\ state_user = NoneValue
    /\ invoked = FALSE
    /\ auth_result = Nothing
    /\ LoggingOff

AuthNext ==
    \/ AuthBearer
    \/ AuthDecode
    \/ AuthCallNext

AuthSpec == AuthInit /\ [][AuthNext]_vars

\* the logging middleware: dispatch applied to any request, with or
\* without a client address, in front of any handler
LoggingInit ==
    /\ celery_app = FALSE
    /\ MiddlewareInit
    /\ config = DefaultConfig
    /\ call = NoCall
    /\ alert = NoAlert
    /\ AuthOff
    /\ log_request \in [method : Methods, path : Paths, client : Clients]
    /\ log_downstream \in HandlerOutcomes
    /\ log_pc = "call_next"
    /\ request_log = <<>>
    /\ log_result = Nothing

LoggingNext ==
    \/ LoggingCallNext
    \/ LoggingLog

LoggingSpec == LoggingInit /\ [][LoggingNext]_vars

\* the pipeline with a worker that keeps consuming its queues: a message
\* that can be started is started, a started task ends
WorkerFairness ==
    \A r \in Requests, i \in 1..2 :
        /\ WF_vars(WorkerStart(r, i))
        /\ WF_vars(\E ok \in BOOLEAN : WorkerFinish(r, i, ok))

FairSpec == Spec /\ WorkerFairness

-----------------------------------------------------------------------------
(* Vocabulary of the properties *)

\* the database-layer failures the interceptor is specified to catch
DatabaseFailures == {"SQLAlchemyError", "IntegrityError"}

Done(r) == pc[r] = "done"
HandlerReturned(r) == handler[r].kind = "response"
DatabaseFailure(r) ==
    handler[r].kind = "raised" /\ handler[r].exc \in DatabaseFailures
OtherFailure(r) ==
    handler[r].kind = "raised" /\ handler[r].exc \notin DatabaseFailures

\* the log entries of request r that carry event name ev
EntriesOf(r, ev) == {i \in DOMAIN logs[r] : logs[r][i].msg.data.event = ev}
\* the messages request r published under task name n
SubmissionsOf(r, n) == {i \in DOMAIN tasks[r] : tasks[r][i].name = n}

\* a send_task call of request r raised
SubmissionFailed(r) ==
    /\ celery_app
    /\ DatabaseFailure(r)
    /\ pc[r] \in {"finally", "done"}
    /\ Len(tasks[r]) < 2

-----------------------------------------------------------------------------
(* Properties of DBTransactionMiddleware.dispatch, under Spec *)

\* C1: every request whose handler raises a database-transaction failure
\* gets status 500 with the fixed body, whatever the error text.
\* Violated: when send_task raises, dispatch raises instead (see C3).
C1_Generic500OnDatabaseFailure ==
    \A r \in Requests :
        Done(r) /\ DatabaseFailure(r) => result[r] = GenericErrorResponse

\* C2: every request emits exactly one log entry, a "complete" entry or an
\* "error" entry, never both.
\* Violated: the finally branch logs db_transaction_complete after the
\* except branch logged db_transaction_error.
C2_ExactlyOneLogEntry ==
    \A r \in Requests :
        Done(r) =>
            /\ Len(logs[r]) = 1
            /\ Cardinality(EntriesOf(r, "db_transaction_complete"))
                 + Cardinality(EntriesOf(r, "db_transaction_error")) = 1

\* C3: a failure of send_task while a database failure is handled is
\* swallowed: the generic 500 response is still returned and nothing is
\* raised.
\* Violated: the send_task calls are in no try block.
C3_SubmissionFailureSwallowed ==
    \A r \in Requests :
        Done(r) /\ SubmissionFailed(r) =>
            /\ result[r].kind # "raised"
            /\ result[r] = GenericErrorResponse

\* C4: a request whose handler raises a database failure makes exactly one
\* alert submission, and no request makes more than one.
\* Violated: without a Celery client nothing is submitted.
C4_FailureReportedExactlyOnce ==
    \A r \in Requests :
        Done(r) =>
            /\ Cardinality(SubmissionsOf(r, EmailTaskName)) <= 1
            /\ DatabaseFailure(r) =>
                   Cardinality(SubmissionsOf(r, EmailTaskName)) = 1

\* C5: an error of the handler that is no database failure leaves dispatch
\* as it is: no response is synthesized and nothing is submitted.
C5_OtherErrorsPropagate ==
    \A r \in Requests :
        Done(r) /\ OtherFailure(r) =>
            /\ result[r] = handler[r]
            /\ result[r].kind = "raised"
            /\ tasks[r] = <<>>
            /\ EntriesOf(r, "db_transaction_error") = {}

C5_Witness ==
    \E r \in Requests :
        /\ Done(r)
        /\ handler[r] = Raised("ValueError", "connection lost")
        /\ result[r] = handler[r]

\* C6: when the handler returns, dispatch returns that very response, logs
\* one "complete" entry and submits nothing.
C6_SuccessPassesThrough ==
    \A r \in Requests :
        Done(r) /\ HandlerReturned(r) =>
            /\ result[r] = handler[r]
            /\ Len(logs[r]) = 1
            /\ EntriesOf(r, "db_transaction_complete") = {1}
            /\ tasks[r] = <<>>

C6_Witness ==
    \E r \in Requests :
        /\ Done(r)
        /\ handler[r] = Resp(404, "not found")
        /\ result[r] = Resp(404, "not found")
        /\ Len(logs[r]) = 1

\* C7: the response never waits for a delivery: the steps that build and
\* return it are enabled whatever the state of the submitted work, and the
\* response of a failed transaction is the generic one and stays what it is
\* while the worker starts, completes or fails the deliveries.
C7_FireAndForget ==
    [][\A r \in Requests :
         /\ pc[r] = "respond" => ENABLED Respond(r)
         /\ pc[r] = "finally" => ENABLED Finally(r)
         /\ Done(r) => result'[r] = result[r]
         /\ (pc'[r] = "done" /\ DatabaseFailure(r)
               /\ result'[r].kind = "response")
              => result'[r] = GenericErrorResponse]_vars

\* the response has been returned while the e-mail task is still queued and
\* the persistence task has already failed
C7_Witness ==
    \E r \in Requests :
        /\ Done(r)
        /\ result[r] = GenericErrorResponse
        /\ Len(tasks[r]) = 2
        /\ tasks[r][1].state = "failed"
        /\ tasks[r][2].state = "queued"

-----------------------------------------------------------------------------
(* Properties of send_alert, under AlertSpec *)

\* the routing table of the Alert Dispatcher
RoutingOrder(name) ==
    CASE name = "CRITICAL" -> <<"email", "slack", "sms", "webhook">>
      [] name = "WARNING"  -> <<"email", "slack", "webhook">>
      [] name = "INFO"     -> <<"slack", "webhook">>

\* the severity is one of the three values the called module compares with
NativeSeverity ==
    /\ call.severity.value \in SeverityNames
    /\ call.severity.type =
         (IF call.module = "utils.alerts" THEN "AlertSeverity" ELSE "str")

ChannelsCalled == [i \in DOMAIN alert.calls |-> alert.calls[i].channel]
CallsOn(ch) == {i \in DOMAIN alert.calls : alert.calls[i].channel = ch}

AllConfigured ==
    /\ config.SLACK_WEBHOOK_URL
    /\ config.TWILIO_ACCOUNT_SID
    /\ config.TWILIO_AUTH_TOKEN
    /\ config.WEBHOOK_URL

C9_CriticalCallsAllFourInOrder ==
    (AlertDone /\ NativeSeverity /\ call.severity.value = "CRITICAL") =>
        ChannelsCalled = <<"email", "slack", "sms", "webhook">>

C9_Witness ==
    /\ AlertDone
    /\ call.module = "utils.alerts"
    /\ call.severity = EnumSev("CRITICAL")
    /\ ChannelsCalled = <<"email", "slack", "sms", "webhook">>

C11_InfoCallsChatAndWebhookOnly ==
    (AlertDone /\ NativeSeverity /\ call.severity.value = "INFO") =>
        /\ ChannelsCalled = <<"slack", "webhook">>
        /\ CallsOn("email") = {}
        /\ CallsOn("sms") = {}

C11_Witness ==
    /\ AlertDone
    /\ AllConfigured
    /\ call.module = "utils.alerts"
    /\ call.severity = EnumSev("INFO")
    /\ Len(alert.calls) = 2
    /\ alert.calls[1].channel = "slack"
    /\ alert.calls[1].logged = "sent"

\* C12: a WARNING dispatch calls exactly Email, Chat, Webhook, in that
\* order; SMS is called zero times.
C12_WarningCallsEmailChatWebhook ==
    (AlertDone /\ NativeSeverity /\ call.severity.value = "WARNING") =>
        /\ ChannelsCalled = <<"email", "slack", "webhook">>
        /\ CallsOn("sms") = {}

C12_Witness ==
    /\ AlertDone
    /\ AllConfigured
    /\ call.module = "utils.alerts"
    /\ call.severity = EnumSev("WARNING")
    /\ Len(alert.calls) = 3
    /\ alert.calls[1].channel = "email"
    /\ alert.calls[3].channel = "webhook"

\* the settings each channel needs (section 6 of the specification)
ChannelSettings(ch) ==
    CASE ch = "email"   -> {"SMTP_SERVER", "SMTP_PORT", "SMTP_USER",
                            "SMTP_PASSWORD", "SMTP_RECEIVER"}
      [] ch = "slack"   -> {"SLACK_WEBHOOK_URL"}
      [] ch = "sms"     -> {"TWILIO_ACCOUNT_SID", "TWILIO_AUTH_TOKEN",
                            "TWILIO_PHONE_NUMBER", "ALERT_PHONE_NUMBER"}
      [] ch = "webhook" -> {"WEBHOOK_URL"}

\* no setting of the channel is given
ConfigurationAbsent(ch) == \A n \in ChannelSettings(ch) : ~config[n]
\* at least one setting of the channel is not given
SomeSettingMissing(ch) == \E n \in ChannelSettings(ch) : ~config[n]

\* C13: a channel whose configuration is absent raises nothing and makes no
\* network or provider call, and the other channels are still called; for
\* every channel and every combination of configured channels.
\* Violated: send_alert_email tests no setting and opens the SMTP session
\* with the placeholder defaults.
C13_AbsentConfigurationSkips ==
    AlertDone =>
        /\ ~alert.raised
        /\ \A i \in DOMAIN alert.calls :
             ConfigurationAbsent(alert.calls[i].channel) =>
                 /\ ~alert.calls[i].network
                 /\ ~alert.calls[i].raised
        /\ NativeSeverity =>
             ChannelsCalled = RoutingOrder(call.severity.value)

\* the chat, SMS and webhook channels do skip when their settings are absent
C13_SkipReached ==
    /\ AlertDone
    /\ NativeSeverity
    /\ call.severity.value = "CRITICAL"
    /\ ConfigurationAbsent("slack")
    /\ ConfigurationAbsent("sms")
    /\ ~ConfigurationAbsent("webhook")
    /\ alert.calls[2].logged = "unconfigured"
    /\ alert.calls[3].logged = "unconfigured"
    /\ alert.calls[4].network

NetOf(ch) ==
    CASE ch = "email"   -> call.net.email
      [] ch = "slack"   -> call.net.slack
      [] ch = "sms"     -> call.net.sms
      [] ch = "webhook" -> call.net.webhook

\* the test each channel function makes before it calls out
GuardFails(ch) ==
    CASE ch = "email"   -> FALSE
      [] ch = "slack"   -> ~config.SLACK_WEBHOOK_URL
      [] ch = "sms"     -> ~config.TWILIO_ACCOUNT_SID
                             \/ ~config.TWILIO_AUTH_TOKEN
      [] ch = "webhook" -> ~config.WEBHOOK_URL

\* the call made inside the try block raised
TransportRaised(ch) ==
    \/ NetOf(ch) = "exception"
    \/ ch = "webhook" /\ call.severity.type = "AlertSeverity"

C15_AnyMissingValueSkips ==
    AlertDone =>
        \A i \in DOMAIN alert.calls :
            SomeSettingMissing(alert.calls[i].channel) =>
                /\ ~alert.calls[i].network
                /\ alert.calls[i].logged = "unconfigured"

\* C16: a Chat or Webhook delivery answered with a non-2xx status is
\* reported as an error, never as sent.
\* Violated: requests.post returns the response without raising and the
\* status is never read.
C16_Non2xxIsAFailure ==
    AlertDone =>
        \A i \in DOMAIN alert.calls :
            (/\ alert.calls[i].channel \in {"slack", "webhook"}
             /\ alert.calls[i].network
             /\ NetOf(alert.calls[i].channel) = "non2xx")
              => alert.calls[i].logged = "error"

\* the channels a queue of the worker delivers on
QueueChannels(q) == IF q = "email_queue" THEN {"email"} ELSE {}

\* the channels on which the work submitted for request r delivers
ChannelsSubmitted(r) ==
    UNION {QueueChannels(TaskQueue(tasks[r][i].name)) : i \in DOMAIN tasks[r]}

\* C17: every database failure hands a CRITICAL event to the dispatcher, so
\* that work delivering on each of Email, Chat, SMS and Webhook has been
\* submitted by the time dispatch returns (nothing is submitted later).
\* Violated: dispatch never calls send_alert; it publishes an e-mail task and
\* a persistence task only, and nothing at all without a Celery client.
C17_FailureReachesAllFourChannels ==
    \A r \in Requests :
        (Done(r) /\ DatabaseFailure(r)) =>
            ChannelsSubmitted(r) = {"email", "slack", "sms", "webhook"}

Terminal(t) == t.state \in {"succeeded", "failed"}

\* the only changes a submitted message undergoes are the worker's
WorkerProgress(old, new) ==
    \/ new = old
    \/ old.state = "queued" /\ new = [old EXCEPT !.state = "started"]
    \/ old.state = "started" /\ Terminal(new)
         /\ new = [old EXCEPT !.state = new.state]

Decoded(m) == m.data

\* every copy of the failure event that left dispatch for request r: the
\* "error" log entry, the persistence argument and the e-mail body
EventCopies(r) ==
    {Decoded(logs[r][i].msg) : i \in EntriesOf(r, "db_transaction_error")}
    \cup {Decoded(tasks[r][i].payload) : i \in DOMAIN tasks[r]}

\* C19: round trip of the failure event.  The "error" log entry and the
\* payloads submitted for persistence and for the alert e-mail all decode to
\* one and the same event, which carries exactly the request's method and
\* path and exactly the error text of the failure.
C19_EventRoundTrip ==
    \A r \in Requests :
        /\ Cardinality(EventCopies(r)) <= 1
        /\ \A ev \in EventCopies(r) :
             /\ DatabaseFailure(r)
             /\ ev.event = "db_transaction_error"
             /\ ev.method = request[r].method
             /\ ev.path = request[r].path
             /\ ev.error = handler[r].text

\* POST /orders failed with "connection lost": the entry is logged and both
\* payloads are submitted
C19_Witness ==
    \E r \in Requests :
        /\ Done(r)
        /\ request[r] = [method |-> "POST", path |-> "/orders"]
        /\ handler[r].text = "connection lost"
        /\ EntriesOf(r, "db_transaction_error") # {}
        /\ Len(tasks[r]) = 2
        /\ \E ev \in EventCopies(r) :
             /\ ev.method = "POST"
             /\ ev.path = "/orders"
             /\ ev.error = "connection lost"

\* the request carries a bearer token that parses, verifies and has not
\* expired
TokenAccepted ==
    /\ authorization.present
    /\ authorization.scheme = "Bearer"
    /\ authorization.credentials.wellformed
    /\ authorization.credentials.signed_with_secret
    /\ ~authorization.credentials.expired

AuthDone == auth_pc = "done"

\* C20: the handler is invoked only after the bearer token has been decoded:
\* for a missing, expired or invalid token dispatch raises a 401 error and
\* the handler is never invoked, and whenever the handler is invoked
\* request.state.user holds the decoded payload.
\* Violated: without bearer credentials HTTPBearer raises 403 on fastapi
\* releases up to 0.121.
C20_HandlerOnlyAfterDecode ==
    /\ invoked => (TokenAccepted /\ state_user = authorization.credentials.claims)
    /\ (AuthDone /\ ~TokenAccepted) =>
         /\ ~invoked
         /\ auth_result.exc = "HTTPException"
         /\ auth_result.status = 401

\* the names of the messages request r published, in submission order
SubmittedNames(r) == [i \in DOMAIN tasks[r] |-> tasks[r][i].name]

\* C21: when the handler raises an error that is no database failure,
\* dispatch still writes one db_transaction_complete entry with error = None,
\* and writes it before the error leaves dispatch: the failed request is
\* logged as complete, and as nothing else.
C21_FailedRequestLoggedComplete ==
    \A r \in Requests :
        OtherFailure(r) =>
            /\ result[r] # Nothing =>
                 /\ result[r] = handler[r]
                 /\ Len(logs[r]) = 1
                 /\ logs[r][1].level = "INFO"
                 /\ logs[r][1].msg.data.event = "db_transaction_complete"
                 /\ logs[r][1].msg.data.error = NoneValue
                 /\ logs[r][1].msg.data.method = request[r].method
                 /\ logs[r][1].msg.data.path = request[r].path
            /\ Done(r) => result[r] # Nothing

\* POST /orders raised ValueError: the error has left dispatch and the only
\* log entry says the transaction completed
C21_Witness ==
    \E r \in Requests :
        /\ Done(r)
        /\ request[r] = [method |-> "POST", path |-> "/orders"]
        /\ handler[r] = Raised("ValueError", "deadlock detected")
        /\ result[r] = handler[r]
        /\ EntriesOf(r, "db_transaction_complete") = {1}

LoggingDone == log_pc = "done"

\* C24: for every request whose handler returns a response, with or without
\* a client address, LoggingMiddleware.dispatch returns that response
\* unchanged and writes exactly one log entry.
\* Violated: without a client address client_ip is never bound, and reading
\* it for the log entry raises UnboundLocalError.
C24_LogsEveryResponse ==
    (LoggingDone /\ log_downstream.kind = "response") =>
        /\ log_result = log_downstream
        /\ Len(request_log) = 1

====
